---- MODULE Spec2Model ----
\* A model of the step-based RAG workflow engine of workflow/rag_workflow.py:
\* one ConcreteRAGWorkflow instance, shared by the asyncio tasks that call
\* run(...) and run_step(...) on it.  The event loop is single-threaded: a task
\* keeps the processor until it awaits something that suspends it.
EXTENDS Integers, Sequences, FiniteSets, TLC

\* ---------------------------------------------------------------- bounds
\* Calls (run or run_step) made on the instance over its whole life.
MaxCalls == 2

\* The asyncio tasks that may call into the instance.
Tasks == {"t1", "t2"}

\* ---------------------------------------------------------------- values
\* Optional[...] is a sequence of length 0 (None) or 1.
None == <<>>
Some(x) == <<x>>

\* Text is a sequence of characters.
EmptyStr == <<>>

\* str.lower() on one character.
LowerChar(c) ==
  CASE c = "P" -> "p"
    [] c = "X" -> "x"
    [] OTHER -> c

\* Mutant: the text as it is, no character lowered.
LowerNothing(s) == s

\* str.lower(): every character lowered.
Lower(s) == [i \in 1..Len(s) |-> LowerChar(s[i])]

\* `a in b` for str: a occurs in b as a contiguous substring.
Contains(b, a) ==
  \E k \in 0..(Len(b) - Len(a)) : \A i \in 1..Len(a) : b[k + i] = a[i]

\* Python truthiness of an Optional[str] query: None and "" are falsy.
TruthyQuery(o) == o # None /\ o[1] # EmptyStr

\* Python truthiness of an Optional[str] directory name (names are atoms here,
\* "" is the empty name).
TruthyDir(o) == o # None /\ o[1] # ""

\* list(reversed(l)).
Reversed(l) == [i \in 1..Len(l) |-> l[Len(l) + 1 - i]]

\* sep.join(l).
RECURSIVE Join(_, _)
Join(l, sep) ==
  IF l = <<>> THEN <<>>
  ELSE IF Len(l) = 1 THEN l[1]
  ELSE l[1] \o sep \o Join(Tail(l), sep)

\* ------------------------------------------------------- the environment
\* The directories ingest may be pointed at: os.listdir's result for each, in
\* the order it yields them.  An entry is a regular file whose text can be
\* read ("text"), a regular file whose read or decode raises ("unreadable"),
\* or something that is not a regular file ("dir").
Listing(d) ==
  CASE d = "docs" ->
         << [name |-> "u.bin", kind |-> "unreadable", content |-> <<>>],
            [name |-> "sub", kind |-> "dir", content |-> <<>>],
            [name |-> "a.txt", kind |-> "text", content |-> <<"x", "P">>] >>
    [] d = "notes" ->
         << [name |-> "b.txt", kind |-> "text", content |-> <<"p", "y">>],
            [name |-> "c.txt", kind |-> "text", content |-> <<"P", "x">>] >>
    [] OTHER -> <<>>

\* The directories that exist; os.listdir raises on any other name.
ExistingDirs == {"docs", "notes"}

\* The arguments of the run calls: every combination of a directory name, a
\* query and an index, and the two arguments that are given but falsy.
DirNames == {None, Some("docs"), Some("missing")}

Queries == {None, Some(<<"p">>)}

\* The embedder's vector for one text: main.py's placeholder returns the same
\* vector of EmbeddingDim entries for every text.
EmbeddingDim == 768
Embedding(text) == [dim |-> EmbeddingDim, fill |-> "0.1"]

\* embedder.get_text_embedding_batch(texts): one vector per text, same order.
EmbedBatch(texts) == [i \in 1..Len(texts) |-> Embedding(texts[i])]

NoEmbeddings == [f \in {} |-> 0]

\* An index a caller may pass to run(index=...): None, or an IngestResult made
\* elsewhere.
Indexes1 ==
  Some([documents |-> << <<"p">> >>, embeddings |-> ("z.txt" :> Embedding(<<"p">>))])

Indexes == {None, Indexes1}

RunCalls ==
  {[dirname |-> d, query |-> q, index |-> i] :
     d \in DirNames, q \in Queries, i \in Indexes}
  \cup {[dirname |-> Some(""), query |-> Some(<<"p">>), index |-> Indexes1],
        [dirname |-> Some("docs"), query |-> Some(EmptyStr), index |-> None]}

\* ------------------------------------------------------- step discovery
\* The members inspect.getmembers finds on a ConcreteRAGWorkflow instance:
\* bound methods, with the configuration @step_config attached (if any), and
\* plain attributes.
Members ==
  { [name |-> "__init__", kind |-> "method", step_config |-> None],
    [name |-> "register_steps", kind |-> "method", step_config |-> None],
    [name |-> "run_step", kind |-> "method", step_config |-> None],
    [name |-> "run", kind |-> "method", step_config |-> None],
    [name |-> "ingest", kind |-> "method",
     step_config |-> Some("Ingest data from a directory and embed it.")],
    [name |-> "retrieve", kind |-> "method",
     step_config |-> Some("Retrieve relevant documents based on a query.")],
    [name |-> "rerank", kind |-> "method",
     step_config |-> Some("Rerank the retrieved documents.")],
    [name |-> "synthesize", kind |-> "method",
     step_config |-> Some("Synthesize an answer from the reranked documents.")],
    [name |-> "steps", kind |-> "attribute", step_config |-> None],
    [name |-> "execution_history", kind |-> "attribute", step_config |-> None],
    [name |-> "documents", kind |-> "attribute", step_config |-> None],
    [name |-> "embedder", kind |-> "attribute", step_config |-> None],
    [name |-> "vector_store", kind |-> "attribute", step_config |-> None] }

\* The members inspect.getmembers finds on the ConcreteRAGWorkflow class: the
\* functions its body and its base define, with the configuration @step_config
\* attached (if any), and members that are not functions.
ClassMembers ==
  { [name |-> "__init__", kind |-> "function", step_config |-> None],
    [name |-> "register_steps", kind |-> "function", step_config |-> None],
    [name |-> "run_step", kind |-> "function", step_config |-> None],
    [name |-> "run", kind |-> "function", step_config |-> None],
    [name |-> "ingest", kind |-> "function",
     step_config |-> Some("Ingest data from a directory and embed it.")],
    [name |-> "retrieve", kind |-> "function",
     step_config |-> Some("Retrieve relevant documents based on a query.")],
    [name |-> "rerank", kind |-> "function",
     step_config |-> Some("Rerank the retrieved documents.")],
    [name |-> "synthesize", kind |-> "function",
     step_config |-> Some("Synthesize an answer from the reranked documents.")],
    [name |-> "__doc__", kind |-> "attribute", step_config |-> None],
    [name |-> "__module__", kind |-> "attribute", step_config |-> None] }

\* get_steps_from_class: the functions that carry a step configuration.
get_steps_from_class(members) ==
  LET marked == {m \in members : m.kind = "function" /\ m.step_config # None}
  IN [n \in {m.name : m \in marked} |->
        LET m == CHOOSE x \in marked : x.name = n
        IN [name |-> n, step_config |-> [description |-> m.step_config[1]]]]

\* Mutant: every method is a step, configured or not.
get_steps_from_instance_unmarked(members) ==
  LET marked == {m \in members : m.kind = "method"}
  IN [n \in {m.name : m \in marked} |->
        LET m == CHOOSE x \in marked : x.name = n
        IN [name |-> n,
            step_config |-> IF m.step_config # None
                            THEN [description |-> m.step_config[1]]
                            ELSE [description |-> ""]]]

\* get_steps_from_instance: the methods that carry a step configuration.
get_steps_from_instance(members) ==
  LET marked == {m \in members : m.kind = "method" /\ m.step_config # None}
  IN [n \in {m.name : m \in marked} |->
        LET m == CHOOSE x \in marked : x.name = n
        IN [name |-> n, step_config |-> [description |-> m.step_config[1]]]]

\* register_steps.
register_steps == get_steps_from_instance(Members)

\* ------------------------------------------------------------ outcomes
\* The outcome of a call or of a step: still running, returned a value, or
\* raised an error.
Pending == [status |-> "pending", value |-> None, error |-> ""]
Returned(v) == [status |-> "returned", value |-> v, error |-> ""]
Raised(e) == [status |-> "raised", value |-> None, error |-> e]

\* ValueError("Step ... is not registered in the workflow.")
StepNotFoundError == "StepNotFoundError"
\* ValueError("Query must be provided ...")
MissingQueryError == "MissingQueryError"
\* os.listdir raising on a directory that cannot be listed
ListdirError == "ListdirError"
\* what the embedder raises, and what the vector store raises
EmbedderError == "EmbedderError"
VectorStoreError == "VectorStoreError"

\* ------------------------------------------------------------- state
VARIABLES
  steps,              \* self.steps: name -> WorkflowStep
  execution_history,  \* self.execution_history
  documents,          \* self.documents
  store,              \* vector_store.embeddings: filename -> vector
  running,            \* the task the event loop is running, or "none"
  call,               \* per task: the call it is making on the instance
  frame,              \* per task: the frame of run (position and locals)
  step,               \* per task: the run_step call and the handler under it
  outcome,            \* per task: the outcome of its call
  inflight,           \* per task: steps dispatched by its call and not finished
  trace,              \* per task: the handlers its call ran, with arguments and outcomes
  dep_raised,         \* per task: the errors its dependencies raised during the call
  history_call,       \* for each history entry, the id of the call that appended it
  documents_call,     \* the id of the call whose ingest stored documents (0: none)
  ncalls              \* calls made so far

vars ==
  << steps, execution_history, documents, store, running, call, frame, step,
     outcome, inflight, trace, dep_raised, history_call, documents_call, ncalls >>

NoKwargs == [none |-> TRUE]

IdleCall ==
  [kind |-> "idle", id |-> 0, dirname |-> None, query |-> None, index |-> None,
   h0 |-> <<>>, d0 |-> <<>>]

NoFrame ==
  [pc |-> "none", ingest_result |-> None, retrieved |-> None, reranked |-> None]

NoLocals ==
  [files |-> <<>>, i |-> 0, documents |-> <<>>, embeddings |-> NoEmbeddings]

NoStep ==
  [pc |-> "none", name |-> "", kwargs |-> NoKwargs, loc |-> NoLocals, out |-> Pending]

\* RAGWorkflow.__init__ and ConcreteRAGWorkflow.__init__.
Init ==
  /\ steps = register_steps
  /\ execution_history = <<>>
  /\ documents = <<>>
  /\ store = NoEmbeddings
  /\ running = "none"
  /\ call = [t \in Tasks |-> IdleCall]
  /\ frame = [t \in Tasks |-> NoFrame]
  /\ step = [t \in Tasks |-> NoStep]
  /\ outcome = [t \in Tasks |-> Pending]
  /\ inflight = [t \in Tasks |-> {}]
  /\ trace = [t \in Tasks |-> <<>>]
  /\ dep_raised = [t \in Tasks |-> {}]
  /\ history_call = <<>>
  /\ documents_call = 0
  /\ ncalls = 0

\* --------------------------------------------------------- the callers
\* The run_step calls a caller makes directly on the instance.
DirectCalls ==
  { [name |-> "bogus", kwargs |-> NoKwargs],
    [name |-> "ingest", kwargs |-> [dirname |-> "notes"]],
    [name |-> "retrieve", kwargs |-> [query |-> EmptyStr, index |-> None]],
    [name |-> "retrieve", kwargs |-> [query |-> <<"X", "p">>, index |-> None]],
    [name |-> "rerank",
     kwargs |-> [retrieved |-> [documents |-> << <<"x">>, <<"y">> >>]]],
    [name |-> "synthesize",
     kwargs |-> [reranked |-> [documents |-> << <<"y">>, <<"x">> >>]]] }

\* A call of run_step(name, **kwargs): the coroutine, before any of it ran.
NewStep(name, kwargs) ==
  [NoStep EXCEPT !.pc = "lookup", !.name = name, !.kwargs = kwargs]

\* Mutant: the coroutine is made and not awaited.
AwaitNothing(s) == TRUE

\* `await coroutine`: the awaiting frame goes on once the coroutine finished.
AwaitDone(s) == s.pc = "finished"

\* What a frame does with an error raised under it that it does not catch.
Propagate(out) == out

\* The bookkeeping of a step of task t that moves its run_step call to s2.
Settle(t, s2) ==
  /\ step' = [step EXCEPT ![t] = s2]
  /\ inflight' =
       [inflight EXCEPT ![t] = IF s2.pc = "finished" THEN @ \ {s2.name} ELSE @]
  /\ trace' =
       [trace EXCEPT ![t] =
          IF s2.pc = "finished" /\ step[t].pc # "lookup"
          THEN Append(@, [name |-> s2.name, kwargs |-> s2.kwargs, out |-> s2.out,
                          read_call |-> documents_call])
          ELSE @]

Finish(s, out) == [s EXCEPT !.pc = "finished", !.out = out]

\* The task that makes the next call: the tasks are interchangeable, and the
\* first one that is free takes it.
FreeTask(t) ==
  /\ call[t].kind = "idle"
  /\ t = "t2" => call["t1"].kind # "idle"

\* Mutant: run behind a mutual-exclusion guard, one call at a time.
CallRunExclusive(t, d, q, i) ==
  /\ running = "none"
  /\ FreeTask(t)
  /\ \A u \in Tasks : call[u].kind = "idle"
  /\ ncalls < MaxCalls
  /\ ncalls' = ncalls + 1
  /\ call' = [call EXCEPT ![t] =
                [kind |-> "run", id |-> ncalls + 1, dirname |-> d, query |-> q,
                 index |-> i, h0 |-> execution_history, d0 |-> documents]]
  /\ frame' = [frame EXCEPT ![t] = [NoFrame EXCEPT !.pc = "start"]]
  /\ running' = t
  /\ UNCHANGED << steps, execution_history, documents, store, step, outcome,
                  inflight, trace, dep_raised, history_call, documents_call >>

\* A task starts a call of run(dirname=d, query=q, index=i).
CallRun(t, d, q, i) ==
  /\ running = "none"
  /\ FreeTask(t)
  /\ ncalls < MaxCalls
  /\ ncalls' = ncalls + 1
  /\ call' = [call EXCEPT ![t] =
                [kind |-> "run", id |-> ncalls + 1, dirname |-> d, query |-> q,
                 index |-> i, h0 |-> execution_history, d0 |-> documents]]
  /\ frame' = [frame EXCEPT ![t] = [NoFrame EXCEPT !.pc = "start"]]
  /\ running' = t
  /\ UNCHANGED << steps, execution_history, documents, store, step, outcome,
                  inflight, trace, dep_raised, history_call, documents_call >>

\* A task starts a direct call of run_step(c.name, **c.kwargs).
CallRunStep(t, c) ==
  /\ running = "none"
  /\ FreeTask(t)
  /\ ncalls < MaxCalls
  /\ ncalls' = ncalls + 1
  /\ call' = [call EXCEPT ![t] =
                [IdleCall EXCEPT !.kind = "run_step", !.id = ncalls + 1,
                                 !.h0 = execution_history, !.d0 = documents]]
  /\ step' = [step EXCEPT ![t] = NewStep(c.name, c.kwargs)]
  /\ inflight' = [inflight EXCEPT ![t] = @ \cup {c.name}]
  /\ running' = t
  /\ UNCHANGED << steps, execution_history, documents, store, frame, outcome,
                  trace, dep_raised, history_call, documents_call >>

\* ------------------------------------------------------------ run_step
\* Mutant: run_step without its lookup test.
RegisteredAlways(registry, name) == TRUE

\* `step_name in self.steps`
Registered(registry, name) == name \in DOMAIN registry

\* Mutant: the dispatch leaves the history as it is.
RecordDispatchNever(history, name) == history

\* Mutant: the history starts over at each dispatch.
RecordDispatchAfresh(history, name) == <<name>>

\* Mutant: the entry put at the front of the history.
RecordDispatchFront(history, name) == <<name>> \o history

\* self.execution_history.append(step_name)
RecordDispatch(history, name) == Append(history, name)

\* Mutant: the step that is looked up is taken out of the mapping.
StepsAfterLookupPopped(registry, name) ==
  [n \in DOMAIN registry \ {name} |-> registry[n]]

\* step = self.steps[step_name]: a subscript, which leaves the mapping as it is.
StepsAfterLookup(registry, name) == registry

\* run_step up to the call of the handler: the lookup, the history entry.
RunStepLookup(t) ==
  /\ running = t
  /\ step[t].pc = "lookup"
  /\ IF ~Registered(steps, step[t].name)
     THEN /\ Settle(t, Finish(step[t], Raised(StepNotFoundError)))
          /\ UNCHANGED << steps, execution_history, history_call >>
     ELSE /\ execution_history' = RecordDispatch(execution_history, step[t].name)
          /\ history_call' = Append(history_call, call[t].id)
          /\ steps' = StepsAfterLookup(steps, step[t].name)
          /\ Settle(t, [step[t] EXCEPT !.pc = step[t].name])
  /\ UNCHANGED << documents, store, running, call, frame, outcome,
                  dep_raised, documents_call, ncalls >>

\* The caller of a direct run_step call gets the outcome of the step.
DirectReturn(t) ==
  /\ running = t
  /\ call[t].kind = "run_step"
  /\ outcome[t].status = "pending"
  /\ AwaitDone(step[t])
  /\ outcome' = [outcome EXCEPT ![t] = step[t].out]
  /\ UNCHANGED << steps, execution_history, documents, store, running, call, frame,
                  step, inflight, trace, dep_raised, history_call, documents_call,
                  ncalls >>

\* The call is over: the task ends and the event loop is free again.
TaskEnd(t) ==
  /\ running = t
  /\ outcome[t].status # "pending"
  /\ running' = "none"
  /\ call' = [call EXCEPT ![t] = IdleCall]
  /\ frame' = [frame EXCEPT ![t] = NoFrame]
  /\ step' = [step EXCEPT ![t] = NoStep]
  /\ outcome' = [outcome EXCEPT ![t] = Pending]
  /\ inflight' = [inflight EXCEPT ![t] = {}]
  /\ trace' = [trace EXCEPT ![t] = <<>>]
  /\ dep_raised' = [dep_raised EXCEPT ![t] = {}]
  /\ UNCHANGED << steps, execution_history, documents, store, history_call,
                  documents_call, ncalls >>

\* -------------------------------------------------------------- ingest
\* os.listdir(dirname), and the locals of ingest before its loop.
IngestEnter(s) ==
  IF s.kwargs.dirname \notin ExistingDirs
  THEN Finish(s, Raised(ListdirError))
  ELSE [s EXCEPT !.pc = "loop",
                 !.loc = [NoLocals EXCEPT !.files = Listing(s.kwargs.dirname),
                                          !.i = 1]]

IngestListdir(t) ==
  /\ running = t
  /\ step[t].pc = "ingest"
  /\ Settle(t, IngestEnter(step[t]))
  /\ UNCHANGED << steps, execution_history, documents, store, running, call, frame,
                  outcome, dep_raised, history_call, documents_call, ncalls >>

\* The next iteration of the loop.
NextFile(s) == [s EXCEPT !.pc = "loop", !.loc.i = @ + 1]

\* Mutant: a failed read ends ingest with the error.
OnReadErrorRaise(s) == [s EXCEPT !.pc = "finished", !.out = Raised("FileReadError")]

\* The except clause of the loop body, reached from open/read: log and go on.
OnReadError(s) == NextFile(s)

\* The except clause of the loop body, reached from the awaited embedder call:
\* the same clause, so the error is logged and the loop goes on.
OnEmbedError(s) == NextFile(s)

\* One iteration of the loop, up to the embedder call: the isfile test, the
\* read, documents.append(content).
IngestEntry(s) ==
  LET e == s.loc.files[s.loc.i]
  IN CASE e.kind = "dir" -> NextFile(s)
       [] e.kind = "unreadable" -> OnReadError(s)
       [] OTHER -> [s EXCEPT !.pc = "await_embed",
                             !.loc.documents = Append(@, e.content)]

IngestFile(t) ==
  /\ running = t
  /\ step[t].pc = "loop"
  /\ step[t].loc.i <= Len(step[t].loc.files)
  /\ Settle(t, IngestEntry(step[t]))
  /\ running' = IF step'[t].pc = "await_embed" THEN "none" ELSE t
  /\ UNCHANGED << steps, execution_history, documents, store, call, frame, outcome,
                  dep_raised, history_call, documents_call, ncalls >>

\* embeddings[filename] = embedding[0]
StoreEmbedding(s) ==
  LET e == s.loc.files[s.loc.i]
  IN [NextFile(s) EXCEPT
        !.loc.embeddings = (e.name :> EmbedBatch(<<e.content>>)[1]) @@ @]

\* The embedder call returns.
EmbedReturn(t) ==
  /\ running = "none"
  /\ step[t].pc = "await_embed"
  /\ running' = t
  /\ Settle(t, StoreEmbedding(step[t]))
  /\ UNCHANGED << steps, execution_history, documents, store, call, frame, outcome,
                  dep_raised, history_call, documents_call, ncalls >>

\* The embedder call raises.
EmbedRaise(t) ==
  /\ running = "none"
  /\ step[t].pc = "await_embed"
  /\ running' = t
  /\ dep_raised' = [dep_raised EXCEPT ![t] = @ \cup {EmbedderError}]
  /\ Settle(t, OnEmbedError(step[t]))
  /\ UNCHANGED << steps, execution_history, documents, store, call, frame, outcome,
                  history_call, documents_call, ncalls >>

\* The loop is over: await self.vector_store.add_embeddings(embeddings).
IngestAdd(t) ==
  /\ running = t
  /\ step[t].pc = "loop"
  /\ step[t].loc.i > Len(step[t].loc.files)
  /\ running' = "none"
  /\ Settle(t, [step[t] EXCEPT !.pc = "await_add"])
  /\ UNCHANGED << steps, execution_history, documents, store, call, frame, outcome,
                  dep_raised, history_call, documents_call, ncalls >>

\* Mutant: the texts read are added to the documents already stored.
StoredDocumentsAppended(old, new) == old \o new

\* self.documents = documents
StoredDocuments(old, new) == new

\* ingest_result
IngestResult(loc) == [documents |-> loc.documents, embeddings |-> loc.embeddings]

\* The vector store took the embeddings: the rest of ingest.
AddReturn(t) ==
  /\ running = "none"
  /\ step[t].pc = "await_add"
  /\ running' = t
  /\ store' = step[t].loc.embeddings @@ store
  /\ documents' = StoredDocuments(documents, step[t].loc.documents)
  /\ documents_call' = call[t].id
  /\ Settle(t, Finish(step[t], Returned(IngestResult(step[t].loc))))
  /\ UNCHANGED << steps, execution_history, call, frame, outcome, dep_raised,
                  history_call, ncalls >>

\* The vector store raises: ingest raises.
AddRaise(t) ==
  /\ running = "none"
  /\ step[t].pc = "await_add"
  /\ running' = t
  /\ dep_raised' = [dep_raised EXCEPT ![t] = @ \cup {VectorStoreError}]
  /\ Settle(t, Finish(step[t], Propagate(Raised(VectorStoreError))))
  /\ UNCHANGED << steps, execution_history, documents, store, call, frame, outcome,
                  history_call, documents_call, ncalls >>

\* ------------------------------------------- retrieve, rerank, synthesize
\* Mutant: the documents of the index argument are searched when it has any.
RetrieveDocsOfIndex(docs, query, index) ==
  SelectSeq(IF index # None THEN index[1].documents ELSE docs,
            LAMBDA doc : Contains(Lower(doc), Lower(query)))

\* [doc for doc in self.documents if query.lower() in doc.lower()]
RetrieveDocs(docs, query, index) ==
  SelectSeq(docs, LAMBDA doc : Contains(Lower(doc), Lower(query)))

\* Mutant: retrieve searches the documents of the index it is handed, and the
\* stored ones when it is handed none.
RetrieveBodyOnIndex(s, docs) ==
  IF s.kwargs.query = EmptyStr
  THEN Finish(s, Raised(MissingQueryError))
  ELSE Finish(s, Returned([documents |->
                             RetrieveDocs(IF s.kwargs.index # None
                                          THEN s.kwargs.index[1].documents
                                          ELSE docs,
                                          s.kwargs.query, s.kwargs.index)]))

RetrieveBody(s, docs) ==
  IF s.kwargs.query = EmptyStr
  THEN Finish(s, Raised(MissingQueryError))
  ELSE Finish(s, Returned([documents |->
                             RetrieveDocs(docs, s.kwargs.query, s.kwargs.index)]))

Retrieve(t) ==
  /\ running = t
  /\ step[t].pc = "retrieve"
  /\ Settle(t, RetrieveBody(step[t], documents))
  /\ UNCHANGED << steps, execution_history, documents, store, running, call, frame,
                  outcome, dep_raised, history_call, documents_call, ncalls >>

\* Mutant: the documents in the order they came in.
RerankDocsInOrder(retrieved) == [documents |-> retrieved.documents]

\* {"documents": list(reversed(retrieved["documents"]))}
RerankDocs(retrieved) == [documents |-> Reversed(retrieved.documents)]

\* rerank up to its sleep.
RerankStart(t) ==
  /\ running = t
  /\ step[t].pc = "rerank"
  /\ running' = "none"
  /\ Settle(t, [step[t] EXCEPT !.pc = "rerank_sleep"])
  /\ UNCHANGED << steps, execution_history, documents, store, call, frame, outcome,
                  dep_raised, history_call, documents_call, ncalls >>

RerankWake(t) ==
  /\ running = "none"
  /\ step[t].pc = "rerank_sleep"
  /\ running' = t
  /\ Settle(t, Finish(step[t], Returned(RerankDocs(step[t].kwargs.retrieved))))
  /\ UNCHANGED << steps, execution_history, documents, store, call, frame, outcome,
                  dep_raised, history_call, documents_call, ncalls >>

SynthesizedPrefix == <<"Synthesized answer based on documents: ">>

\* f"Synthesized answer based on documents: {', '.join(reranked['documents'])}"
SynthesizeText(reranked) == SynthesizedPrefix \o Join(reranked.documents, <<", ">>)

\* synthesize up to its sleep.
SynthesizeStart(t) ==
  /\ running = t
  /\ step[t].pc = "synthesize"
  /\ running' = "none"
  /\ Settle(t, [step[t] EXCEPT !.pc = "synthesize_sleep"])
  /\ UNCHANGED << steps, execution_history, documents, store, call, frame, outcome,
                  dep_raised, history_call, documents_call, ncalls >>

SynthesizeWake(t) ==
  /\ running = "none"
  /\ step[t].pc = "synthesize_sleep"
  /\ running' = t
  /\ Settle(t, Finish(step[t], Returned(SynthesizeText(step[t].kwargs.reranked))))
  /\ UNCHANGED << steps, execution_history, documents, store, call, frame, outcome,
                  dep_raised, history_call, documents_call, ncalls >>

\* ----------------------------------------------------------------- run
\* The keyword arguments run passes to each step.
IngestKwargs(c) == [dirname |-> c.dirname[1]]
RetrieveKwargs(c, f) == [query |-> c.query[1], index |-> f.ingest_result]
RerankKwargs(f) == [retrieved |-> f.retrieved]
\* Mutant: synthesize is handed what retrieve returned.
SynthesizeKwargsRetrieved(f) == [reranked |-> f.retrieved]

SynthesizeKwargs(f) == [reranked |-> f.reranked]

\* `return synthesized`
RunResult(synthesized) == Returned(synthesized)

\* Mutant: run calls the rerank handler itself, not through run_step.
DispatchBypass(t, f, pc, name, kwargs) ==
  /\ frame' = [frame EXCEPT ![t] = [f EXCEPT !.pc = pc]]
  /\ step' = [step EXCEPT ![t] =
                [NewStep(name, kwargs) EXCEPT
                   !.pc = IF name = "rerank" THEN "rerank" ELSE "lookup"]]
  /\ inflight' = [inflight EXCEPT ![t] = @ \cup {name}]

\* run calls self.run_step(name, **kwargs) and awaits it at position pc.
Dispatch(t, f, pc, name, kwargs) ==
  /\ frame' = [frame EXCEPT ![t] = [f EXCEPT !.pc = pc]]
  /\ step' = [step EXCEPT ![t] = NewStep(name, kwargs)]
  /\ inflight' = [inflight EXCEPT ![t] = @ \cup {name}]

\* Mutant: run catches what the step raised and goes on to its query test.
RunRaiseAndGoOn(t, out) ==
  /\ frame' = [frame EXCEPT ![t].pc = "check_query"]
  /\ UNCHANGED << step, inflight, outcome >>

\* The step run awaited raised: run raises the same error.
RunRaise(t, out) ==
  /\ outcome' = [outcome EXCEPT ![t] = Propagate(out)]
  /\ frame' = [frame EXCEPT ![t].pc = "raised"]
  /\ UNCHANGED << step, inflight >>

\* Mutant: without a query run hands back the working index.
NoQueryReturnsIndex(f) == Returned(f.ingest_result)

\* The else branch of `if query:`: raise ValueError("Query must be provided ...").
NoQueryOutcome(f) == Raised(MissingQueryError)

\* `if dirname:` and its two branches.
RunStart(t) ==
  /\ running = t
  /\ frame[t].pc = "start"
  /\ IF TruthyDir(call[t].dirname)
     THEN Dispatch(t, frame[t], "await_ingest", "ingest", IngestKwargs(call[t]))
     ELSE /\ frame' = [frame EXCEPT ![t].pc = "check_query",
                                    ![t].ingest_result = call[t].index]
          /\ UNCHANGED << step, inflight >>
  /\ UNCHANGED << steps, execution_history, documents, store, running, call, outcome,
                  trace, dep_raised, history_call, documents_call, ncalls >>

\* Mutant: an index the caller passed wins over the ingest result.
IngestedIndexUnlessPassed(c, value) == IF c.index # None THEN c.index ELSE Some(value)

\* ingest_result = await self.run_step("ingest", dirname=dirname)
IngestedIndex(c, value) == Some(value)

\* The awaited ingest step is over.
RunAfterIngest(t) ==
  /\ running = t
  /\ frame[t].pc = "await_ingest"
  /\ AwaitDone(step[t])
  /\ IF step[t].out.status = "raised"
     THEN RunRaise(t, step[t].out)
     ELSE /\ frame' = [frame EXCEPT ![t].pc = "check_query",
                                    ![t].ingest_result =
                                       IngestedIndex(call[t], step[t].out.value)]
          /\ UNCHANGED << step, inflight, outcome >>
  /\ UNCHANGED << steps, execution_history, documents, store, running, call, trace,
                  dep_raised, history_call, documents_call, ncalls >>

\* `if query:` and its two branches.
RunCheckQuery(t) ==
  /\ running = t
  /\ frame[t].pc = "check_query"
  /\ IF TruthyQuery(call[t].query)
     THEN /\ Dispatch(t, frame[t], "await_retrieve", "retrieve",
                      RetrieveKwargs(call[t], frame[t]))
          /\ UNCHANGED outcome
     ELSE /\ outcome' = [outcome EXCEPT ![t] = NoQueryOutcome(frame[t])]
          /\ frame' = [frame EXCEPT ![t].pc = "raised"]
          /\ UNCHANGED << step, inflight >>
  /\ UNCHANGED << steps, execution_history, documents, store, running, call, trace,
                  dep_raised, history_call, documents_call, ncalls >>

\* The awaited retrieve step is over.
RunAfterRetrieve(t) ==
  /\ running = t
  /\ frame[t].pc = "await_retrieve"
  /\ AwaitDone(step[t])
  /\ IF step[t].out.status = "raised"
     THEN RunRaise(t, step[t].out)
     ELSE LET f == [frame[t] EXCEPT !.retrieved = step[t].out.value]
          IN /\ Dispatch(t, f, "await_rerank", "rerank", RerankKwargs(f))
             /\ UNCHANGED outcome
  /\ UNCHANGED << steps, execution_history, documents, store, running, call, trace,
                  dep_raised, history_call, documents_call, ncalls >>

\* The awaited rerank step is over.
RunAfterRerank(t) ==
  /\ running = t
  /\ frame[t].pc = "await_rerank"
  /\ AwaitDone(step[t])
  /\ IF step[t].out.status = "raised"
     THEN RunRaise(t, step[t].out)
     ELSE LET f == [frame[t] EXCEPT !.reranked = step[t].out.value]
          IN /\ Dispatch(t, f, "await_synthesize", "synthesize", SynthesizeKwargs(f))
             /\ UNCHANGED outcome
  /\ UNCHANGED << steps, execution_history, documents, store, running, call, trace,
                  dep_raised, history_call, documents_call, ncalls >>

\* The awaited synthesize step is over: run returns.
RunAfterSynthesize(t) ==
  /\ running = t
  /\ frame[t].pc = "await_synthesize"
  /\ AwaitDone(step[t])
  /\ IF step[t].out.status = "raised"
     THEN RunRaise(t, step[t].out)
     ELSE /\ outcome' = [outcome EXCEPT ![t] = RunResult(step[t].out.value)]
          /\ frame' = [frame EXCEPT ![t].pc = "returned"]
          /\ UNCHANGED << step, inflight >>
  /\ UNCHANGED << steps, execution_history, documents, store, running, call, trace,
                  dep_raised, history_call, documents_call, ncalls >>

\* ------------------------------------------------------ specification
Next ==
  \/ \E t \in Tasks, c \in RunCalls : CallRun(t, c.dirname, c.query, c.index)
  \/ \E t \in Tasks, c \in DirectCalls : CallRunStep(t, c)
  \/ \E t \in Tasks : RunStepLookup(t)
  \/ \E t \in Tasks : DirectReturn(t)
  \/ \E t \in Tasks : TaskEnd(t)
  \/ \E t \in Tasks : IngestListdir(t)
  \/ \E t \in Tasks : IngestFile(t)
  \/ \E t \in Tasks : EmbedReturn(t)
  \/ \E t \in Tasks : EmbedRaise(t)
  \/ \E t \in Tasks : IngestAdd(t)
  \/ \E t \in Tasks : AddReturn(t)
  \/ \E t \in Tasks : AddRaise(t)
  \/ \E t \in Tasks : Retrieve(t)
  \/ \E t \in Tasks : RerankStart(t)
  \/ \E t \in Tasks : RerankWake(t)
  \/ \E t \in Tasks : SynthesizeStart(t)
  \/ \E t \in Tasks : SynthesizeWake(t)
  \/ \E t \in Tasks : RunStart(t)
  \/ \E t \in Tasks : RunAfterIngest(t)
  \/ \E t \in Tasks : RunCheckQuery(t)
  \/ \E t \in Tasks : RunAfterRetrieve(t)
  \/ \E t \in Tasks : RunAfterRerank(t)
  \/ \E t \in Tasks : RunAfterSynthesize(t)

Spec == Init /\ [][Next]_vars

\* ------------------------------------------------- runs that are cancelled
\* asyncio.CancelledError, thrown into a coroutine at the await it sleeps in
\* when its caller cancels it.
CancelledError == "CancelledError"

\* rerank is cancelled in its sleep: the await raises and so does rerank.
RerankCancel(t) ==
  /\ running = "none"
  /\ step[t].pc = "rerank_sleep"
  /\ running' = t
  /\ Settle(t, Finish(step[t], Raised(CancelledError)))
  /\ UNCHANGED << steps, execution_history, documents, store, call, frame, outcome,
                  dep_raised, history_call, documents_call, ncalls >>

\* synthesize is cancelled in its sleep.
SynthesizeCancel(t) ==
  /\ running = "none"
  /\ step[t].pc = "synthesize_sleep"
  /\ running' = t
  /\ Settle(t, Finish(step[t], Raised(CancelledError)))
  /\ UNCHANGED << steps, execution_history, documents, store, call, frame, outcome,
                  dep_raised, history_call, documents_call, ncalls >>

\* The callers of run, who may cancel a run while it sleeps in a step.
FaultNext ==
  \/ \E t \in Tasks, c \in RunCalls : CallRun(t, c.dirname, c.query, c.index)
  \/ \E t \in Tasks : RunStepLookup(t)
  \/ \E t \in Tasks : TaskEnd(t)
  \/ \E t \in Tasks : IngestListdir(t)
  \/ \E t \in Tasks : IngestFile(t)
  \/ \E t \in Tasks : EmbedReturn(t)
  \/ \E t \in Tasks : EmbedRaise(t)
  \/ \E t \in Tasks : IngestAdd(t)
  \/ \E t \in Tasks : AddReturn(t)
  \/ \E t \in Tasks : AddRaise(t)
  \/ \E t \in Tasks : Retrieve(t)
  \/ \E t \in Tasks : RerankStart(t)
  \/ \E t \in Tasks : RerankWake(t)
  \/ \E t \in Tasks : RerankCancel(t)
  \/ \E t \in Tasks : SynthesizeStart(t)
  \/ \E t \in Tasks : SynthesizeWake(t)
  \/ \E t \in Tasks : SynthesizeCancel(t)
  \/ \E t \in Tasks : RunStart(t)
  \/ \E t \in Tasks : RunAfterIngest(t)
  \/ \E t \in Tasks : RunCheckQuery(t)
  \/ \E t \in Tasks : RunAfterRetrieve(t)
  \/ \E t \in Tasks : RunAfterRerank(t)
  \/ \E t \in Tasks : RunAfterSynthesize(t)

FaultSpec == Init /\ [][FaultNext]_vars

\* ------------------------------------------- the steps, called one by one
\* One caller drives the instance through run_step alone, a call at a time, with
\* every argument of a bounded family: the directories, every query of up to
\* MaxQueryLen characters and every list of up to MaxDocs documents.
MaxQueryLen == 2

MaxDocs == 3

QueryChars == {"p", "X", "y"}

StepQueries == UNION {[1..k -> QueryChars] : k \in 0..MaxQueryLen}

StepDocLists == UNION {[1..k -> {<<"x">>, <<"y">>}] : k \in 0..MaxDocs}

StepCalls ==
  {[name |-> "ingest", kwargs |-> [dirname |-> d]] : d \in {"docs", "notes", "missing"}}
    \cup {[name |-> "retrieve", kwargs |-> [query |-> q, index |-> None]] :
             q \in StepQueries}
    \cup {[name |-> "rerank", kwargs |-> [retrieved |-> [documents |-> l]]] :
             l \in StepDocLists}
    \cup {[name |-> "synthesize", kwargs |-> [reranked |-> [documents |-> l]]] :
             l \in StepDocLists}

StepNext ==
  \/ \E c \in StepCalls : CallRunStep("t1", c)
  \/ \E t \in Tasks : RunStepLookup(t)
  \/ \E t \in Tasks : DirectReturn(t)
  \/ \E t \in Tasks : TaskEnd(t)
  \/ \E t \in Tasks : IngestListdir(t)
  \/ \E t \in Tasks : IngestFile(t)
  \/ \E t \in Tasks : EmbedReturn(t)
  \/ \E t \in Tasks : EmbedRaise(t)
  \/ \E t \in Tasks : IngestAdd(t)
  \/ \E t \in Tasks : AddReturn(t)
  \/ \E t \in Tasks : AddRaise(t)
  \/ \E t \in Tasks : Retrieve(t)
  \/ \E t \in Tasks : RerankStart(t)
  \/ \E t \in Tasks : RerankWake(t)
  \/ \E t \in Tasks : SynthesizeStart(t)
  \/ \E t \in Tasks : SynthesizeWake(t)

StepSpec == Init /\ [][StepNext]_vars

\* ------------------------------------------------------------- claims
\* The entries of history h that the call with this id appended (hc names the
\* call of each entry).
OwnEntries(h, hc, id) ==
  LET F[i \in 0..Len(h)] ==
        IF i = 0 THEN <<>>
        ELSE IF hc[i] = id THEN Append(F[i - 1], h[i]) ELSE F[i - 1]
  IN F[Len(h)]

\* C1: run_step on a name that is not a key of steps fails with the
\* step-not-found error, runs no handler and leaves execution_history as it
\* was before the call.
C1_UnregisteredStepFails ==
  \A t \in Tasks :
    (step[t].name \notin DOMAIN steps /\ step[t].pc \notin {"none", "lookup"}) =>
      /\ step[t].pc = "finished"
      /\ step[t].out = Raised(StepNotFoundError)
      /\ trace[t] = <<>>
      /\ execution_history = call[t].h0
      /\ outcome[t] \in {Pending, Raised(StepNotFoundError)}

C1_Witness ==
  \E t \in Tasks :
    /\ step[t].name = "bogus"
    /\ outcome[t] = Raised(StepNotFoundError)
    /\ execution_history # <<>>
    /\ execution_history = call[t].h0

\* C2: a run_step call on a registered name appends exactly one entry to
\* execution_history, the step name, at the end (so entries are in call
\* order), and appends nothing more while its handler runs.
C2_OneEntryPerDispatch ==
  [][\A t \in Tasks :
       LET s == step[t]
           own == OwnEntries(execution_history, history_call, call[t].id)
           own2 == OwnEntries(execution_history', history_call', call[t].id)
       IN /\ (s.pc = "lookup" /\ s.name \in DOMAIN steps /\ step'[t] # s) =>
               /\ execution_history' = Append(execution_history, s.name)
               /\ own2 = Append(own, s.name)
          /\ (s.pc \notin {"none", "lookup", "finished"} /\ call'[t] = call[t]) =>
               own2 = own
          /\ (call[t].kind = "run_step" /\ outcome'[t].status = "returned") =>
               own2 = <<s.name>>
    ]_vars

C2_Witness ==
  \E t \in Tasks :
    /\ call[t].kind = "run_step"
    /\ outcome[t].status = "returned"
    /\ call[t].h0 # <<>>
    /\ execution_history = Append(call[t].h0, step[t].name)

PipelineSteps == <<"ingest", "retrieve", "rerank", "synthesize">>

\* No other call appended to the history since the call of task t began.
Alone(t) ==
  \A i \in (Len(call[t].h0) + 1)..Len(history_call) : history_call[i] = call[t].id

\* C3: a run with a dirname and a query given, all of whose steps succeed,
\* appends exactly ingest, retrieve, rerank, synthesize, in that order.
C3_FullRunHistory ==
  \A t \in Tasks :
    (/\ call[t].kind = "run"
     /\ TruthyDir(call[t].dirname)
     /\ TruthyQuery(call[t].query)
     /\ outcome[t].status = "returned") =>
      /\ OwnEntries(execution_history, history_call, call[t].id) = PipelineSteps
      /\ Alone(t) => execution_history = call[t].h0 \o PipelineSteps

C3_Witness ==
  \E t \in Tasks :
    /\ call[t].kind = "run"
    /\ TruthyDir(call[t].dirname)
    /\ TruthyQuery(call[t].query)
    /\ outcome[t].status = "returned"
    /\ call[t].h0 # <<>>
    /\ execution_history = call[t].h0 \o PipelineSteps

\* C4: run(dirname=D, query=None), D given, hands the caller the ingest
\* step's result and appends no retrieve, rerank or synthesize entry.
C4_IngestOnlyRunReturnsIngestResult ==
  \A t \in Tasks :
    (/\ call[t].kind = "run"
     /\ TruthyDir(call[t].dirname)
     /\ call[t].query = None
     /\ outcome[t].status # "pending"
     /\ trace[t] # <<>>
     /\ trace[t][1].out.status = "returned") =>
      /\ outcome[t].status = "returned"
      /\ outcome[t].value = trace[t][1].out.value
      /\ OwnEntries(execution_history, history_call, call[t].id) = <<"ingest">>

\* C5: run(dirname=None, query=None, index=anything) fails with the
\* missing-query error, dispatches no step, and leaves execution_history and
\* documents as they were before the call.
C5_NoDirNoQueryFails ==
  \A t \in Tasks :
    (call[t].kind = "run" /\ call[t].dirname = None /\ call[t].query = None) =>
      /\ execution_history = call[t].h0
      /\ documents = call[t].d0
      /\ step[t] = NoStep /\ trace[t] = <<>> /\ inflight[t] = {}
      /\ frame[t].pc \in {"start", "check_query", "raised"}
      /\ frame[t].pc = "raised" <=> outcome[t] = Raised(MissingQueryError)
      /\ frame[t].pc # "raised" => outcome[t] = Pending

C5_Witness ==
  \E t \in Tasks :
    /\ call[t].kind = "run" /\ call[t].dirname = None /\ call[t].query = None
    /\ call[t].index # None
    /\ outcome[t] = Raised(MissingQueryError)
    /\ execution_history # <<>> /\ documents # <<>>

\* The position at which run awaits the step of this name.
AwaitPc(name) ==
  CASE name = "ingest" -> "await_ingest"
    [] name = "retrieve" -> "await_retrieve"
    [] name = "rerank" -> "await_rerank"
    [] name = "synthesize" -> "await_synthesize"
    [] OTHER -> "none"

\* C6: within one run at most one step is in flight, run is awaiting exactly
\* that step, and every step dispatched before it has returned its result.
C6_StepsSequential ==
  \A t \in Tasks :
    call[t].kind = "run" =>
      /\ Cardinality(inflight[t]) <= 1
      /\ inflight[t] # {} =>
           /\ step[t].pc \notin {"none", "finished"}
           /\ inflight[t] = {step[t].name}
           /\ frame[t].pc = AwaitPc(step[t].name)
           /\ \A i \in 1..Len(trace[t]) : trace[t][i].out.status = "returned"
      /\ step[t].pc \in {"none", "finished"} => inflight[t] = {}

C6_Witness ==
  \E t \in Tasks :
    /\ call[t].kind = "run"
    /\ inflight[t] = {"rerank"}
    /\ step[t].pc = "rerank_sleep"
    /\ Len(trace[t]) = 2
    /\ trace[t][2].name = "retrieve"

\* C7: runs on one instance are not isolated.  Nothing keeps a second run from
\* starting while a first one is suspended in a step (there is no guard around
\* run), and the two then share execution_history and documents.
C7_NoMutualExclusion ==
  \A t \in Tasks, u \in Tasks :
    (/\ t # u
     /\ call[t].kind = "run" /\ outcome[t].status = "pending"
     /\ running = "none"
     /\ FreeTask(u)
     /\ ncalls < MaxCalls) =>
      \A c \in RunCalls : ENABLED CallRun(u, c.dirname, c.query, c.index)

\* The entries of two calls interleave in the history, and the retrieve of one
\* run, still under way, read the documents the other run's ingest stored.
C7_Witness ==
  \E t \in Tasks, u \in Tasks :
    /\ t # u
    /\ call[t].kind = "run" /\ call[u].kind = "run"
    /\ outcome[t].status = "pending" /\ outcome[u].status = "pending"
    /\ \E i \in 1..Len(history_call), j \in 1..Len(history_call),
           k \in 1..Len(history_call) :
         /\ i < j /\ j < k
         /\ history_call[i] = call[t].id
         /\ history_call[j] = call[u].id
         /\ history_call[k] = call[t].id
    /\ \E n \in 1..Len(trace[u]) :
         /\ trace[u][n].name = "retrieve"
         /\ trace[u][n].read_call = call[t].id
         /\ trace[u][n].out.status = "returned"
         /\ trace[u][n].out.value.documents # <<>>

\* C8: an error raised by the embedder or by the vector store during a run
\* comes out of run: the run fails with that error and dispatches no later
\* step.
C8_DependencyErrorPropagates ==
  \A t \in Tasks :
    (call[t].kind = "run" /\ dep_raised[t] # {}) =>
      /\ Len(trace[t]) = 1
      /\ trace[t][1].name = "ingest"
      /\ trace[t][1].out.status = "raised"
      /\ trace[t][1].out.error \in dep_raised[t]
      /\ OwnEntries(execution_history, history_call, call[t].id) = <<"ingest">>
      /\ outcome[t].status # "pending" =>
           (outcome[t].status = "raised" /\ outcome[t].error \in dep_raised[t])

\* The texts of the regular files of a listing that can be read, in order.
ReadableContents(files) ==
  LET texts == SelectSeq(files, LAMBDA e : e.kind = "text")
  IN [i \in 1..Len(texts) |-> texts[i].content]

TextNames(files) == {files[i].name : i \in {j \in 1..Len(files) : files[j].kind = "text"}}

\* C9: ingest never fails because of a file it cannot read: its documents are
\* the contents of the readable regular files, each once and in order, with
\* nothing for the others, and the loop goes on after a failed file.
C9_IngestSkipsUnreadable ==
  \A t \in Tasks :
    /\ \A n \in 1..Len(trace[t]) :
         trace[t][n].name = "ingest" =>
           LET o == trace[t][n].out
               files == Listing(trace[t][n].kwargs.dirname)
           IN IF o.status = "returned"
              THEN /\ o.value.documents = ReadableContents(files)
                   /\ DOMAIN o.value.embeddings \subseteq TextNames(files)
              ELSE o.error \in {ListdirError, VectorStoreError}
    /\ step[t].pc \in {"loop", "await_embed", "await_add"} =>
         LET loc == step[t].loc
             seen == IF step[t].pc = "loop" THEN loc.i - 1
                     ELSE IF step[t].pc = "await_embed" THEN loc.i
                     ELSE Len(loc.files)
         IN loc.documents = ReadableContents(SubSeq(loc.files, 1, seen))

C9_Witness ==
  \E t \in Tasks :
    /\ trace[t] # <<>>
    /\ trace[t][1].name = "ingest"
    /\ trace[t][1].kwargs.dirname = "docs"
    /\ trace[t][1].out.status = "returned"
    /\ trace[t][1].out.value.documents = << <<"x", "P">> >>

\* C10: in a run with a query whose steps all succeed, retrieve gets the query
\* and the working index, rerank gets what retrieve returned, synthesize gets
\* what rerank returned, and run returns what synthesize returned.
C10_PipelinePassesResults ==
  \A t \in Tasks :
    (call[t].kind = "run" /\ outcome[t].status = "returned") =>
      LET tr == trace[t]
          n == Len(tr)
          working == IF TruthyDir(call[t].dirname)
                     THEN Some(tr[1].out.value) ELSE call[t].index
      IN /\ n = IF TruthyDir(call[t].dirname) THEN 4 ELSE 3
         /\ tr[n - 2].name = "retrieve"
         /\ tr[n - 2].kwargs = [query |-> call[t].query[1], index |-> working]
         /\ tr[n - 1].name = "rerank"
         /\ tr[n - 1].kwargs = [retrieved |-> tr[n - 2].out.value]
         /\ tr[n].name = "synthesize"
         /\ tr[n].kwargs = [reranked |-> tr[n - 1].out.value]
         /\ outcome[t].value = tr[n].out.value

C10_Witness ==
  \E t \in Tasks :
    /\ call[t].kind = "run" /\ outcome[t].status = "returned"
    /\ Len(trace[t]) = 3
    /\ Len(trace[t][1].out.value.documents) = 2
    /\ trace[t][2].out.value.documents # trace[t][1].out.value.documents
    /\ outcome[t].value =
         SynthesizedPrefix \o <<"P", "x", ", ", "p", "y">>

\* C11: the index retrieve is handed is chosen by dirname alone.  With a dirname
\* given, ingest is dispatched first and its result is the index, whatever index
\* the caller passed; without one, no ingest is dispatched and the index is the
\* caller's (None when absent).
C11_WorkingIndexByDirname ==
  \A t \in Tasks :
    call[t].kind = "run" =>
      LET own == OwnEntries(execution_history, history_call, call[t].id)
      IN /\ ~TruthyDir(call[t].dirname) => (\A i \in 1..Len(own) : own[i] # "ingest")
         /\ (step[t].name = "retrieve" /\ step[t].pc # "none") =>
              IF TruthyDir(call[t].dirname)
              THEN /\ own[1] = "ingest"
                   /\ trace[t][1].name = "ingest"
                   /\ trace[t][1].out.status = "returned"
                   /\ step[t].kwargs.index = Some(trace[t][1].out.value)
              ELSE step[t].kwargs.index = call[t].index

\* A run with a dirname and an index both given reached retrieve.
C11_Witness ==
  \E t \in Tasks :
    /\ call[t].kind = "run"
    /\ TruthyDir(call[t].dirname)
    /\ call[t].index = Indexes1
    /\ step[t].name = "retrieve" /\ step[t].pc = "finished"
    /\ step[t].kwargs.index # call[t].index
    /\ step[t].kwargs.index[1].documents = << <<"x", "P">> >>

\* An ingest step of task t ends in this step.
IngestEnds(t) ==
  /\ step[t].name = "ingest"
  /\ step[t].pc \notin {"none", "finished"}
  /\ step'[t].pc = "finished"

\* What one step may do to the stored documents.
DocumentsStep ==
  /\ \A t \in Tasks :
       IngestEnds(t) =>
         IF step'[t].out.status = "returned"
         THEN documents' = ReadableContents(Listing(step[t].kwargs.dirname))
         ELSE documents' = documents
  /\ documents' # documents =>
       \E t \in Tasks : IngestEnds(t) /\ step'[t].out.status = "returned"

\* C12: the stored documents are the texts read by the latest ingest that
\* returned, and empty before any has: an ingest that returns replaces them with
\* the texts of its own directory, an ingest that raises leaves them as they
\* were, and nothing else changes them.
C12_DocumentsOfLastIngest ==
  /\ [](documents_call = 0 => documents = <<>>)
  /\ [][DocumentsStep]_vars

\* An ingest returned on an instance that held other documents, which are gone.
C12_Witness ==
  \E t \in Tasks :
    /\ step[t].name = "ingest" /\ step[t].pc = "finished"
    /\ step[t].out.status = "returned"
    /\ call[t].d0 = << <<"x", "P">> >>
    /\ documents_call = call[t].id
    /\ documents = << <<"p", "y">>, <<"P", "x">> >>

\* A retrieve step of task t runs in this step.
RetrieveRuns(t) == step[t].pc = "retrieve" /\ step'[t].pc = "finished"

\* Two retrieve calls that had the same query and read the same stored documents
\* (those the same call stored) have equal outcomes.
RetrieveRepeatable ==
  \A t, u \in Tasks :
    \A i \in 1..Len(trace[t]), j \in 1..Len(trace[u]) :
      ( /\ trace[t][i].name = "retrieve" /\ trace[u][j].name = "retrieve"
        /\ trace[t][i].kwargs.query = trace[u][j].kwargs.query
        /\ trace[t][i].read_call = trace[u][j].read_call )
      => trace[t][i].out = trace[u][j].out

\* C13: retrieve is repeatable and read-only: two calls with the same query on
\* the same stored documents return equal outputs, and no retrieve call changes
\* the stored documents.
C13_RetrieveIdempotentReadOnly ==
  /\ []RetrieveRepeatable
  /\ [][\A t \in Tasks : RetrieveRuns(t) => documents' = documents]_vars

\* Two calls retrieved with the same query on the same non-empty documents, with
\* index arguments that differ.
C13_Witness ==
  /\ Len(trace["t1"]) >= 2 /\ Len(trace["t2"]) >= 1
  /\ trace["t1"][2].name = "retrieve" /\ trace["t2"][1].name = "retrieve"
  /\ trace["t1"][2].kwargs.query = trace["t2"][1].kwargs.query
  /\ trace["t1"][2].read_call = trace["t2"][1].read_call
  /\ trace["t1"][2].kwargs.index # trace["t2"][1].kwargs.index
  /\ call["t2"].index = Indexes1
  /\ trace["t2"][1].out = Returned([documents |-> << <<"x", "P">> >>])
  /\ documents = << <<"x", "P">> >>

\* Text q occurs in text doc when case is ignored.
ContainsIgnoringCase(doc, q) ==
  \E k \in 0..(Len(doc) - Len(q)) :
    \A i \in 1..Len(q) : LowerChar(doc[k + i]) = LowerChar(q[i])

\* M is the subsequence of docs made of the documents that contain q, case
\* ignored, in the order docs has them.
IsMatchingSubsequence(M, docs, q) ==
  \E f \in [1..Len(M) -> 1..Len(docs)] :
    /\ \A i, j \in 1..Len(M) : i < j => f[i] < f[j]
    /\ \A i \in 1..Len(M) : M[i] = docs[f[i]]
    /\ \A n \in 1..Len(docs) :
         ContainsIgnoringCase(docs[n], q) <=> (\E i \in 1..Len(M) : f[i] = n)

\* C14: for a non-empty query retrieve returns {documents: M}, M the stored
\* documents that contain the query as a substring when case is ignored, in
\* their stored order; for an empty query it fails with the missing-query error.
C14_RetrieveMatches ==
  [][\A t \in Tasks :
       RetrieveRuns(t) =>
         LET q == step[t].kwargs.query
             o == step'[t].out
         IN IF q = EmptyStr
            THEN o = Raised(MissingQueryError)
            ELSE /\ o.status = "returned"
                 /\ DOMAIN o.value = {"documents"}
                 /\ IsMatchingSubsequence(o.value.documents, documents, q)]_vars

\* A query of two characters picked the second of two stored documents, which
\* has it in the other case.
C14_Witness ==
  /\ step["t1"].name = "retrieve" /\ step["t1"].pc = "finished"
  /\ step["t1"].kwargs.query = <<"p", "X">>
  /\ documents = << <<"p", "y">>, <<"P", "x">> >>
  /\ step["t1"].out = Returned([documents |-> << <<"P", "x">> >>])

\* A rerank step of task t returns in this step.
RerankEnds(t) ==
  /\ step[t].name = "rerank"
  /\ step[t].pc = "rerank_sleep"
  /\ step'[t].pc = "finished"

\* C15: rerank of {documents: L} returns {documents: reverse(L)} and leaves
\* the list it was given as it was, so rerank of its own output gives L back.
C15_RerankReverses ==
  [][\A t \in Tasks :
       RerankEnds(t) =>
         LET L == step[t].kwargs.retrieved.documents
             o == step'[t].out
         IN /\ o.status = "returned"
            /\ DOMAIN o.value = {"documents"}
            /\ Len(o.value.documents) = Len(L)
            /\ \A i \in 1..Len(L) : o.value.documents[i] = L[Len(L) + 1 - i]
            /\ step'[t].kwargs = step[t].kwargs
            /\ RerankDocs(o.value) = step[t].kwargs.retrieved]_vars

\* rerank returned a list of three documents in another order than it got.
C15_Witness ==
  /\ step["t1"].name = "rerank" /\ step["t1"].pc = "finished"
  /\ step["t1"].kwargs.retrieved.documents = << <<"x">>, <<"x">>, <<"y">> >>
  /\ step["t1"].out = Returned([documents |-> << <<"y">>, <<"x">>, <<"x">> >>])

\* C16: discovery finds exactly the members that carry a step configuration.
\* The registered names are ingest, retrieve, rerank and synthesize; run,
\* run_step and register_steps, which carry none, are not among them; and
\* discovery on the class gives the names and configurations that discovery on
\* the instance gave.
C16_DiscoveryFindsMarkedMembers ==
  LET fromClass == get_steps_from_class(ClassMembers)
  IN /\ DOMAIN steps = {"ingest", "retrieve", "rerank", "synthesize"}
     /\ DOMAIN steps = {m.name : m \in {x \in Members : x.step_config # None}}
     /\ DOMAIN steps \cap {"run", "run_step", "register_steps"} = {}
     /\ DOMAIN fromClass = DOMAIN steps
     /\ \A n \in DOMAIN steps :
          /\ steps[n].name = n
          /\ steps[n].step_config = fromClass[n].step_config
          /\ \E m \in Members :
               m.name = n /\ steps[n].step_config.description = m.step_config[1]

\* Every registered step was dispatched by its name, on an instance that has
\* methods that are not steps.
C16_Witness ==
  /\ \A n \in DOMAIN steps : \E i \in 1..Len(execution_history) : execution_history[i] = n
  /\ Len(execution_history) = 4
  /\ \E m \in Members : m.kind = "method" /\ m.name \notin DOMAIN steps

\* Sequence a is a prefix of sequence b.
IsPrefix(a, b) == Len(a) <= Len(b) /\ SubSeq(b, 1, Len(a)) = a

\* What one step may do to the history: add at its end, in run_step's dispatch.
HistoryStep ==
  /\ IsPrefix(execution_history, execution_history')
  /\ execution_history' # execution_history =>
       \E t \in Tasks : step[t].pc = "lookup" /\ step'[t].pc = step[t].name

\* C17: execution_history only grows at its end: the history at the start of a
\* call is a prefix of the history at every later moment, every step keeps what
\* is there, only run_step's dispatch changes it, and a second run adds to the
\* entries of the first.
C17_HistoryAppendOnly ==
  /\ [](\A t \in Tasks : call[t].kind # "idle" => IsPrefix(call[t].h0, execution_history))
  /\ [][HistoryStep]_vars

\* main.py's two runs: a second, query-only run ended on the instance whose
\* first run ingested, and its three entries follow the four of the first.
C17_Witness ==
  \E t \in Tasks :
    /\ call[t].kind = "run" /\ call[t].id = 2
    /\ call[t].h0 = <<"ingest", "retrieve", "rerank", "synthesize">>
    /\ outcome[t].status = "returned"
    /\ execution_history = call[t].h0 \o <<"retrieve", "rerank", "synthesize">>

\* C18: a step that raises under run is the last step of that run, and run
\* raises what the step raised: once a step of a run has raised, the run's own
\* history entries stop at that step (nothing after ingest if ingest raised,
\* nothing after retrieve if retrieve did, no synthesize if rerank did), no other
\* step is started, and the outcome of run, once it has one, is the step's.
C18_RaisedStepEndsRun ==
  \A t \in Tasks :
    call[t].kind = "run" =>
      \A n \in 1..Len(trace[t]) :
        trace[t][n].out.status = "raised" =>
          LET own == OwnEntries(execution_history, history_call, call[t].id)
          IN /\ n = Len(trace[t])
             /\ Len(own) = n
             /\ \A i \in 1..n : own[i] = trace[t][i].name
             /\ step[t].name = trace[t][n].name /\ step[t].pc = "finished"
             /\ frame[t].pc \in {"await_ingest", "await_retrieve", "await_rerank",
                                 "await_synthesize", "raised"}
             /\ frame[t].pc = "raised" <=> outcome[t].status # "pending"
             /\ outcome[t].status # "pending" => outcome[t] = trace[t][n].out

\* rerank raised in a run that had ingested and retrieved: run raised the same
\* error and synthesize is not in the history.
C18_Witness ==
  \E t \in Tasks :
    /\ call[t].kind = "run"
    /\ Len(trace[t]) = 3
    /\ trace[t][3].name = "rerank" /\ trace[t][3].out = Raised(CancelledError)
    /\ outcome[t] = Raised(CancelledError)
    /\ execution_history = <<"ingest", "retrieve", "rerank">>

\* C19: run_step records the name before the handler runs: from the moment the
\* handler of a registered name is invoked, and whether it then returns or
\* raises, the history is the history at the call plus that one name.
C19_DispatchRecordedBeforeHandler ==
  \A t \in Tasks :
    ( /\ call[t].kind = "run_step"
      /\ step[t].pc \notin {"none", "lookup"}
      /\ step[t].name \in DOMAIN steps )
    => execution_history = Append(call[t].h0, step[t].name)

\* run_step("retrieve", query="") raised the missing-query error to its caller
\* on an instance with a history, which is one "retrieve" longer.
C19_Witness ==
  /\ call["t1"].kind = "run_step"
  /\ step["t1"].name = "retrieve" /\ step["t1"].kwargs.query = EmptyStr
  /\ outcome["t1"] = Raised(MissingQueryError)
  /\ call["t1"].h0 # <<>>
  /\ execution_history = call["t1"].h0 \o <<"retrieve">>

\* The answer built from stored documents docs for query q: the documents that
\* contain q, case ignored, last one first, joined after the fixed prefix.
AnswerFrom(docs, q) ==
  LET M == SelectSeq(docs, LAMBDA d : ContainsIgnoringCase(d, q))
      R == [i \in 1..Len(M) |-> M[Len(M) + 1 - i]]
  IN SynthesizedPrefix \o Join(R, <<", ">>)

\* C20: what a query-only run returns is fixed by the query and by the documents
\* the instance stored when the run was called, whatever index it was passed: two
\* such runs that differ in the index alone return the same answer, and on an
\* instance that never ingested the answer is the one built from no document.
C20_AnswerIgnoresIndex ==
  \A t \in Tasks :
    ( /\ call[t].kind = "run"
      /\ ~TruthyDir(call[t].dirname)
      /\ outcome[t].status = "returned" )
    => /\ outcome[t].value = AnswerFrom(call[t].d0, call[t].query[1])
       /\ call[t].d0 = <<>> => outcome[t].value = SynthesizedPrefix

\* A query-only run returned the answer built from no document, on an instance
\* that never ingested, though the index it was passed holds a document that
\* contains the query.
C20_Witness ==
  \E t \in Tasks :
    /\ call[t].kind = "run"
    /\ call[t].dirname = None
    /\ call[t].index = Indexes1
    /\ call[t].query = Some(<<"p">>)
    /\ ContainsIgnoringCase(call[t].index[1].documents[1], call[t].query[1])
    /\ documents_call = 0
    /\ outcome[t] = Returned(SynthesizedPrefix)

\* C21: the steps mapping is fixed at construction: no step of a run or
\* run_step call, returning or raising, adds, removes or replaces an entry, so
\* steps is what register_steps made it in every reachable state.
C21_StepsFixed ==
  /\ [](steps = register_steps)
  /\ [][steps' = steps]_vars

\* A second call raised out of a handler, on an instance whose first call had
\* dispatched steps, and the four names are still the dispatchable ones.
C21_Witness ==
  \E t \in Tasks :
    /\ call[t].id = 2
    /\ call[t].h0 # <<>>
    /\ step[t].name \in DOMAIN steps /\ step[t].out.status = "raised"
    /\ outcome[t].status = "raised"
    /\ Len(execution_history) > Len(call[t].h0)
    /\ DOMAIN steps = {"ingest", "retrieve", "rerank", "synthesize"}

====
